---- MODULE Spec2Model ----
(***************************************************************************)
(* Functional options of the maritaca LLM client                           *)
(* (llms/maritaca/options.go).                                             *)
(*                                                                         *)
(* An Option is a closure over *options.  The constructor starts from the  *)
(* default options value and runs the caller's Options one after another   *)
(* on that single value.  WithServerURL is the only Option with a failure  *)
(* path: it assigns the result of url.Parse and calls log.Fatal when the   *)
(* parse reports an error, which ends the process.                         *)
(*                                                                         *)
(* Byte strings that are parsed (raw URLs and the components of a URL) are *)
(* sequences of byte values, so that url.Parse, URL.String and the percent *)
(* escaping between them are computed and not assumed.  Strings that are   *)
(* only stored (model name, prompt, token, ...) are TLA+ strings.          *)
(* float64 values are written in hundredths (70 is 0.7).                   *)
(***************************************************************************)
EXTENDS Integers, Sequences, FiniteSets, TLC

VARIABLES opts, pc, applied

vars == <<opts, pc, applied>>

(***************************************************************************)
(* Bounds of the model.                                                    *)
(***************************************************************************)
\* longest Option list handed to the constructor
MaxMods == 3
\* longest raw URL enumerated byte by byte
MaxLen == 4

(***************************************************************************)
(* strings helpers used by net/url (strings.IndexByte, Cut, HasPrefix...)  *)
(***************************************************************************)
RECURSIVE IndexFrom(_, _, _)
IndexFrom(s, c, i) ==
    IF i > Len(s) THEN 0
    ELSE IF s[i] = c THEN i
    ELSE IndexFrom(s, c, i + 1)

\* strings.IndexByte, 1-based; 0 when c does not occur
Index(s, c) == IndexFrom(s, c, 1)

RECURSIVE LastIndexFrom(_, _, _)
LastIndexFrom(s, c, i) ==
    IF i < 1 THEN 0
    ELSE IF s[i] = c THEN i
    ELSE LastIndexFrom(s, c, i - 1)

\* strings.LastIndex, 1-based; 0 when c does not occur
LastIndex(s, c) == LastIndexFrom(s, c, Len(s))

Contains(s, c) == Index(s, c) # 0

Count(s, c) == Cardinality({i \in 1..Len(s) : s[i] = c})

\* strings.Cut(s, sep) for a one-byte separator
Cut(s, c) ==
    LET i == Index(s, c) IN
    IF i = 0 THEN [before |-> s, after |-> <<>>, found |-> FALSE]
    ELSE [before |-> SubSeq(s, 1, i - 1),
          after  |-> SubSeq(s, i + 1, Len(s)),
          found  |-> TRUE]

HasPrefix(s, p) == Len(s) >= Len(p) /\ SubSeq(s, 1, Len(p)) = p

HasSuffix(s, p) == Len(s) >= Len(p) /\ SubSeq(s, Len(s) - Len(p) + 1, Len(s)) = p

IsLower(c) == 97 <= c /\ c <= 122
IsUpper(c) == 65 <= c /\ c <= 90
IsDigit(c) == 48 <= c /\ c <= 57

\* strings.ToLower on ASCII
ToLower(s) == [i \in 1..Len(s) |-> IF IsUpper(s[i]) THEN s[i] + 32 ELSE s[i]]

(***************************************************************************)
(* net/url: escaping                                                       *)
(***************************************************************************)
ishex(c) == IsDigit(c) \/ (97 <= c /\ c <= 102) \/ (65 <= c /\ c <= 70)

unhex(c) ==
    IF IsDigit(c) THEN c - 48
    ELSE IF 97 <= c /\ c <= 102 THEN c - 97 + 10
    ELSE IF 65 <= c /\ c <= 70 THEN c - 65 + 10
    ELSE 0

\* "0123456789ABCDEF"[n]
upperhex(n) == IF n < 10 THEN 48 + n ELSE 65 + (n - 10)

\* '!' '$' '&' '\'' '(' ')' '*' '+' ',' ';' '=' ':' '[' ']' '<' '>' '"'
HostAllowed == {33, 36, 38, 39, 40, 41, 42, 43, 44, 59, 61, 58, 91, 93, 60, 62, 34}
\* '-' '_' '.' '~'
UnreservedMark == {45, 95, 46, 126}
\* '$' '&' '+' ',' '/' ':' ';' '=' '?' '@'
Reserved == {36, 38, 43, 44, 47, 58, 59, 61, 63, 64}

\* shouldEscape(c, mode) for the modes "host", "path" and "fragment"
shouldEscape(c, mode) ==
    IF IsLower(c) \/ IsUpper(c) \/ IsDigit(c) THEN FALSE
    ELSE IF mode = "host" /\ c \in HostAllowed THEN FALSE
    ELSE IF c \in UnreservedMark THEN FALSE
    ELSE IF c \in Reserved /\ mode = "path" THEN c = 63
    ELSE IF c \in Reserved /\ mode = "fragment" THEN FALSE
    ELSE IF mode = "fragment" /\ c \in {33, 40, 41, 42} THEN FALSE
    ELSE TRUE

RECURSIVE unescapeCheck(_, _, _)
\* first loop of unescape: "" when s can be unescaped, else the error
unescapeCheck(s, mode, i) ==
    IF i > Len(s) THEN ""
    ELSE IF s[i] = 37 THEN
        IF i + 2 > Len(s) \/ ~ishex(s[i + 1]) \/ ~ishex(s[i + 2])
        THEN "invalid URL escape"
        ELSE IF mode = "host" /\ unhex(s[i + 1]) < 8
                /\ SubSeq(s, i, i + 2) # <<37, 50, 53>>
        THEN "invalid URL escape"
        ELSE unescapeCheck(s, mode, i + 3)
    ELSE IF mode = "host" /\ s[i] < 128 /\ shouldEscape(s[i], "host")
    THEN "invalid character in host name"
    ELSE unescapeCheck(s, mode, i + 1)

RECURSIVE unescapeBytes(_, _)
\* second loop of unescape: every %XY becomes the byte 16*X + Y
unescapeBytes(s, i) ==
    IF i > Len(s) THEN <<>>
    ELSE IF s[i] = 37
    THEN <<unhex(s[i + 1]) * 16 + unhex(s[i + 2])>> \o unescapeBytes(s, i + 3)
    ELSE <<s[i]>> \o unescapeBytes(s, i + 1)

unescape(s, mode) ==
    LET e == unescapeCheck(s, mode, 1) IN
    IF e # "" THEN [s |-> <<>>, err |-> e]
    ELSE [s |-> unescapeBytes(s, 1), err |-> ""]

RECURSIVE escapeFrom(_, _, _)
escapeFrom(s, mode, i) ==
    IF i > Len(s) THEN <<>>
    ELSE IF shouldEscape(s[i], mode)
    THEN <<37, upperhex(s[i] \div 16), upperhex(s[i] % 16)>> \o escapeFrom(s, mode, i + 1)
    ELSE <<s[i]>> \o escapeFrom(s, mode, i + 1)

escape(s, mode) == escapeFrom(s, mode, 1)

\* '!' '$' '&' '\'' '(' ')' '*' '+' ',' ';' '=' ':' '@' plus '[' ']' and '%'
ValidEncodedAllowed == {33, 36, 38, 39, 40, 41, 42, 43, 44, 59, 61, 58, 64, 91, 93, 37}

validEncoded(s, mode) ==
    \A i \in 1..Len(s) : s[i] \in ValidEncodedAllowed \/ ~shouldEscape(s[i], mode)

(***************************************************************************)
(* net/url: the URL value and url.Parse                                    *)
(***************************************************************************)
\* *url.URL; nil is the nil pointer.  User is always nil: the raw URLs of
\* the model hold no '@'.
MakeURL(scheme, opaque, host, path, rawPath, omitHost, forceQuery, rawQuery) ==
    [nil |-> FALSE, Scheme |-> scheme, Opaque |-> opaque, Host |-> host,
     Path |-> path, RawPath |-> rawPath, OmitHost |-> omitHost,
     ForceQuery |-> forceQuery, RawQuery |-> rawQuery,
     Fragment |-> <<>>, RawFragment |-> <<>>]

NilURL ==
    [nil |-> TRUE, Scheme |-> <<>>, Opaque |-> <<>>, Host |-> <<>>,
     Path |-> <<>>, RawPath |-> <<>>, OmitHost |-> FALSE,
     ForceQuery |-> FALSE, RawQuery |-> <<>>,
     Fragment |-> <<>>, RawFragment |-> <<>>]

stringContainsCTLByte(s) == \E i \in 1..Len(s) : s[i] < 32 \/ s[i] = 127

RECURSIVE getSchemeFrom(_, _)
getSchemeFrom(rawURL, i) ==
    IF i > Len(rawURL) THEN [scheme |-> <<>>, path |-> rawURL, err |-> ""]
    ELSE LET c == rawURL[i] IN
         IF IsLower(c) \/ IsUpper(c) THEN getSchemeFrom(rawURL, i + 1)
         ELSE IF IsDigit(c) \/ c \in {43, 45, 46} THEN
              IF i = 1 THEN [scheme |-> <<>>, path |-> rawURL, err |-> ""]
              ELSE getSchemeFrom(rawURL, i + 1)
         ELSE IF c = 58 THEN
              IF i = 1 THEN [scheme |-> <<>>, path |-> <<>>,
                             err |-> "missing protocol scheme"]
              ELSE [scheme |-> SubSeq(rawURL, 1, i - 1),
                    path |-> SubSeq(rawURL, i + 1, Len(rawURL)), err |-> ""]
         ELSE [scheme |-> <<>>, path |-> rawURL, err |-> ""]

\* getScheme: (scheme, path, err) with the scheme the text before the first
\* ':' when that text is a letter followed by letters, digits, '+', '-', '.'
getScheme(rawURL) == getSchemeFrom(rawURL, 1)

validOptionalPort(port) ==
    \/ port = <<>>
    \/ /\ port[1] = 58
       /\ \A i \in 2..Len(port) : IsDigit(port[i])

\* parseHost for hosts that do not start with '['
parseHost(host) ==
    LET i == LastIndex(host, 58) IN
    IF i # 0 /\ ~validOptionalPort(SubSeq(host, i, Len(host)))
    THEN [host |-> <<>>, err |-> "invalid port after host"]
    ELSE LET u == unescape(host, "host") IN [host |-> u.s, err |-> u.err]

\* parseAuthority for an authority without userinfo
parseAuthority(authority) == parseHost(authority)

\* URL.setPath: (Path, RawPath, err)
setPath(p) ==
    LET u == unescape(p, "path") IN
    IF u.err # "" THEN [Path |-> <<>>, RawPath |-> <<>>, err |-> u.err]
    ELSE [Path |-> u.s,
          RawPath |-> IF escape(u.s, "path") = p THEN <<>> ELSE p,
          err |-> ""]

\* URL.setFragment: (Fragment, RawFragment, err)
setFragment(f) ==
    LET u == unescape(f, "fragment") IN
    IF u.err # "" THEN [Fragment |-> <<>>, RawFragment |-> <<>>, err |-> u.err]
    ELSE [Fragment |-> u.s,
          RawFragment |-> IF escape(u.s, "fragment") = f THEN <<>> ELSE f,
          err |-> ""]

\* parse, the query: a lone trailing '?' forces an empty query, else the
\* text after the first '?' is the raw query
splitQuery(p) ==
    IF HasSuffix(p, <<63>>) /\ Count(p, 63) = 1
    THEN [rest |-> SubSeq(p, 1, Len(p) - 1), rawQuery |-> <<>>, forceQuery |-> TRUE]
    ELSE [rest |-> Cut(p, 63).before, rawQuery |-> Cut(p, 63).after,
          forceQuery |-> FALSE]

\* parse, the authority: after a leading "//" (not "///" without a scheme),
\* the text up to the next '/' is the authority, the rest the path
hasAuthority(scheme, rest) ==
    (scheme # <<>> \/ ~HasPrefix(rest, <<47, 47, 47>>)) /\ HasPrefix(rest, <<47, 47>>)

authorityOf(rest) ==
    LET after == SubSeq(rest, 3, Len(rest)) IN
    IF Index(after, 47) = 0 THEN after
    ELSE SubSeq(after, 1, Index(after, 47) - 1)

pathAfterAuthority(rest) ==
    LET after == SubSeq(rest, 3, Len(rest)) IN
    IF Index(after, 47) = 0 THEN <<>>
    ELSE SubSeq(after, Index(after, 47), Len(after))

\* parse, from the authority on, for a rest that is no opaque part
parseHier(scheme, rest, forceQuery, rawQuery) ==
    LET auth == hasAuthority(scheme, rest)
        a    == IF auth THEN parseAuthority(authorityOf(rest))
                ELSE [host |-> <<>>, err |-> ""]
        sp   == setPath(IF auth THEN pathAfterAuthority(rest) ELSE rest)
    IN
    IF a.err # "" THEN [url |-> NilURL, err |-> a.err]
    ELSE IF sp.err # "" THEN [url |-> NilURL, err |-> sp.err]
    ELSE [url |-> MakeURL(scheme, <<>>, a.host, sp.Path, sp.RawPath,
                          ~auth /\ scheme # <<>> /\ HasPrefix(rest, <<47>>),
                          forceQuery, rawQuery),
          err |-> ""]

\* parse, after the scheme was split off
parseRest(scheme, rest, forceQuery, rawQuery) ==
    IF ~HasPrefix(rest, <<47>>) /\ scheme # <<>>
    THEN \* rootless paths are opaque
         [url |-> MakeURL(scheme, rest, <<>>, <<>>, <<>>, FALSE, forceQuery, rawQuery),
          err |-> ""]
    ELSE IF ~HasPrefix(rest, <<47>>) /\ Contains(Cut(rest, 47).before, 58)
    THEN [url |-> NilURL, err |-> "first path segment in URL cannot contain colon"]
    ELSE parseHier(scheme, rest, forceQuery, rawQuery)

\* parse(rawURL, viaRequest = false): the URL without its fragment
parse(rawURL) ==
    IF stringContainsCTLByte(rawURL)
    THEN [url |-> NilURL, err |-> "invalid control character in URL"]
    ELSE IF rawURL = <<42>>
    THEN [url |-> MakeURL(<<>>, <<>>, <<>>, <<42>>, <<>>, FALSE, FALSE, <<>>),
          err |-> ""]
    ELSE IF getScheme(rawURL).err # ""
    THEN [url |-> NilURL, err |-> getScheme(rawURL).err]
    ELSE LET q == splitQuery(getScheme(rawURL).path) IN
         parseRest(ToLower(getScheme(rawURL).scheme), q.rest, q.forceQuery, q.rawQuery)

\* url.Parse: cuts the fragment off, parses the rest, then sets the fragment
Parse(rawURL) ==
    LET c == Cut(rawURL, 35)
        r == parse(c.before)
    IN
    IF r.err # "" THEN [url |-> NilURL, err |-> r.err]
    ELSE IF c.after = <<>> THEN r
    ELSE LET f == setFragment(c.after) IN
         IF f.err # "" THEN [url |-> NilURL, err |-> f.err]
         ELSE [url |-> [r.url EXCEPT !.Fragment = f.Fragment,
                                     !.RawFragment = f.RawFragment],
               err |-> ""]

(***************************************************************************)
(* net/url: URL.String                                                  *)
(***************************************************************************)
EscapedPath(u) ==
    IF /\ u.RawPath # <<>>
       /\ validEncoded(u.RawPath, "path")
       /\ unescape(u.RawPath, "path").err = ""
       /\ unescape(u.RawPath, "path").s = u.Path
    THEN u.RawPath
    ELSE IF u.Path = <<42>> THEN <<42>>
    ELSE escape(u.Path, "path")

EscapedFragment(u) ==
    IF /\ u.RawFragment # <<>>
       /\ validEncoded(u.RawFragment, "fragment")
       /\ unescape(u.RawFragment, "fragment").err = ""
       /\ unescape(u.RawFragment, "fragment").s = u.Fragment
    THEN u.RawFragment
    ELSE escape(u.Fragment, "fragment")

String(u) ==
    LET schemePart == IF u.Scheme # <<>> THEN u.Scheme \o <<58>> ELSE <<>>
        authPart ==
            IF u.Scheme # <<>> \/ u.Host # <<>>
            THEN IF u.OmitHost /\ u.Host = <<>> THEN <<>>
                 ELSE (IF u.Host # <<>> \/ u.Path # <<>> THEN <<47, 47>> ELSE <<>>)
                      \o (IF u.Host # <<>> THEN escape(u.Host, "host") ELSE <<>>)
            ELSE <<>>
        path == EscapedPath(u)
        sep  == IF path # <<>> /\ path[1] # 47 /\ u.Host # <<>> THEN <<47>> ELSE <<>>
        sofar == schemePart \o authPart \o sep
        dot  == IF sofar = <<>> /\ Contains(Cut(path, 47).before, 58)
                THEN <<46, 47>> ELSE <<>>
        body == IF u.Opaque # <<>> THEN schemePart \o u.Opaque
                ELSE sofar \o dot \o path
        query == IF u.ForceQuery \/ u.RawQuery # <<>> THEN <<63>> \o u.RawQuery
                 ELSE <<>>
        frag == IF u.Fragment # <<>> THEN <<35>> \o EscapedFragment(u) ELSE <<>>
    IN body \o query \o frag

(***************************************************************************)
(* Inputs of the model                                                     *)
(***************************************************************************)
\* a f A 2 3 : / space LF % ? # .
Alphabet == {97, 102, 65, 50, 51, 58, 47, 32, 10, 37, 63, 35, 46}

\* "http://localhost:8080"
LocalhostURL ==
    <<104, 116, 116, 112, 58, 47, 47, 108, 111, 99, 97, 108, 104, 111, 115,
      116, 58, 56, 48, 56, 48>>
\* "not a url\n"
NotAURL == <<110, 111, 116, 32, 97, 32, 117, 114, 108, 10>>
\* "not a url"
NotAURLNoLF == <<110, 111, 116, 32, 97, 32, 117, 114, 108>>
\* "HTTP://Host/a b"
UpperURL == <<72, 84, 84, 80, 58, 47, 47, 72, 111, 115, 116, 47, 97, 32, 98>>
\* "/%2f x"
EscapedSlashURL == <<47, 37, 50, 102, 32, 120>>
\* "http"
HTTP == <<104, 116, 116, 112>>
\* "localhost:8080"
LocalhostHost == <<108, 111, 99, 97, 108, 104, 111, 115, 116, 58, 56, 48, 56, 48>>

\* raw URLs handed to WithServerURL in Option lists
ServerURLs == {LocalhostURL, NotAURL}

\* raw URLs handed to WithServerURL on its own: every byte string over
\* Alphabet of at most MaxLen bytes, and the named ones
RawURLs ==
    UNION {[1..n -> Alphabet] : n \in 0..MaxLen}
        \cup {LocalhostURL, NotAURL, NotAURLNoLF, UpperURL, EscapedSlashURL}

\* arguments of the other Options; numbers out of the documented ranges
\* are among them (maxTokens 0, temperature -1, topP 1.5, penalty -1,
\* tokensPerMessage 0), and so is a format the service does not know
Models       == {"sabia-2-medium", "sabia-2-small"}
Formats      == {"yaml"}
Prompts      == {"be brief"}
Templates    == {"{{.System}} {{.Prompt}}"}
HTTPClients  == {"customClient"}
MaxTokensIn  == {256, 0}
Temperatures == {20, -100}
TopPs        == {150}
Penalties    == {-100}
StopLists    == {<<>>, <<"</s>", "###">>}
PerMessages  == {8, 0}
Tokens       == {"key-1"}

(***************************************************************************)
(* options and its defaults                                                *)
(***************************************************************************)
\* the options value the constructor starts from
DefaultOptions ==
    [maritacaServerURL   |-> NilURL,
     httpClient          |-> "http.DefaultClient",
     model               |-> "",
     maritacaOptions     |->
        [ChatMode            |-> TRUE,
         MaxTokens           |-> 0,
         DoSample            |-> TRUE,
         Temperature         |-> 70,
         TopP                |-> 95,
         RepetitionPenalty   |-> 100,
         StoppingTokens      |-> <<>>,
         Stream              |-> FALSE,
         NumTokensPerMessage |-> 4,
         Token               |-> ""],
     customModelTemplate |-> "",
     system              |-> "",
     format              |-> ""]

\* what running an Option on o leaves: the options value, and whether the
\* Option called log.Fatal
Ran(o) == [opts |-> o, fatal |-> FALSE]

(***************************************************************************)
(* The Options                                                             *)
(***************************************************************************)
\* slip: a model name already set is kept
WithModel_KeepsFirst(model, o) ==
    Ran(IF o.model = "" THEN [o EXCEPT !.model = model] ELSE o)

WithModel(model, o) == Ran([o EXCEPT !.model = model])

WithFormat(format, o) == Ran([o EXCEPT !.format = format])

WithSystemPrompt(p, o) == Ran([o EXCEPT !.system = p])

WithCustomTemplate(template, o) == Ran([o EXCEPT !.customModelTemplate = template])

\* slip: err is not looked at
WithServerURL_IgnoresErr(rawURL, o) ==
    Ran([o EXCEPT !.maritacaServerURL = Parse(rawURL).url])

\* slip: the parsed location is dropped ( _, err = url.Parse(rawURL) )
WithServerURL_DropsURL(rawURL, o) ==
    [opts |-> o, fatal |-> Parse(rawURL).err # ""]

\* slip: the options value is reset before log.Fatal
WithServerURL_RollsBack(rawURL, o) ==
    LET r == Parse(rawURL) IN
    IF r.err # "" THEN [opts |-> DefaultOptions, fatal |-> TRUE]
    ELSE Ran([o EXCEPT !.maritacaServerURL = r.url])

\* opts.maritacaServerURL, err = url.Parse(rawURL): the field is assigned
\* (nil on an error) before err is looked at
WithServerURL(rawURL, o) ==
    LET r == Parse(rawURL) IN
    [opts  |-> [o EXCEPT !.maritacaServerURL = r.url],
     fatal |-> r.err # ""]

WithHTTPClient(client, o) == Ran([o EXCEPT !.httpClient = client])

WithChatMode(chatMode, o) == Ran([o EXCEPT !.maritacaOptions.ChatMode = chatMode])

WithMaxTokens(maxTokens, o) == Ran([o EXCEPT !.maritacaOptions.MaxTokens = maxTokens])

\* slip: the assignment of the Option above, copied unchanged
WithDoSample_WritesChatMode(doSample, o) ==
    Ran([o EXCEPT !.maritacaOptions.ChatMode = doSample])

WithDoSample(doSample, o) == Ran([o EXCEPT !.maritacaOptions.DoSample = doSample])

\* slip: the documented minimum is enforced
WithTemperature_Validates(temperature, o) ==
    IF temperature < 0 THEN [opts |-> o, fatal |-> TRUE]
    ELSE Ran([o EXCEPT !.maritacaOptions.Temperature = temperature])

WithTemperature(temperature, o) ==
    Ran([o EXCEPT !.maritacaOptions.Temperature = temperature])

\* slip: the value also lands in the field of the Option above
WithTopP_AlsoWritesTemperature(topP, o) ==
    Ran([o EXCEPT !.maritacaOptions.TopP = topP,
                  !.maritacaOptions.Temperature = topP])

WithTopP(topP, o) == Ran([o EXCEPT !.maritacaOptions.TopP = topP])

WithRepetitionPenalty(repetitionPenalty, o) ==
    Ran([o EXCEPT !.maritacaOptions.RepetitionPenalty = repetitionPenalty])

\* slip: the tokens are appended to the stored ones
WithStoppingTokens_Appends(tokens, o) ==
    Ran([o EXCEPT !.maritacaOptions.StoppingTokens = @ \o tokens])

WithStoppingTokens(tokens, o) ==
    Ran([o EXCEPT !.maritacaOptions.StoppingTokens = tokens])

WithStream(stream, o) == Ran([o EXCEPT !.maritacaOptions.Stream = stream])

\* slip: the value is stored only when streaming is already on
WithTokensPerMessage_OnlyWhenStreaming(tokensPerMessage, o) ==
    Ran(IF o.maritacaOptions.Stream
        THEN [o EXCEPT !.maritacaOptions.NumTokensPerMessage = tokensPerMessage]
        ELSE o)

WithTokensPerMessage(tokensPerMessage, o) ==
    Ran([o EXCEPT !.maritacaOptions.NumTokensPerMessage = tokensPerMessage])

WithToken(token, o) == Ran([o EXCEPT !.maritacaOptions.Token = token])

\* an Option value: the closure WithX(arg) returns
Opt(name, arg) == [name |-> name, arg |-> arg]

\* calling the Option m on o
Option(m, o) ==
    CASE m.name = "WithModel"             -> WithModel(m.arg, o)
      [] m.name = "WithFormat"            -> WithFormat(m.arg, o)
      [] m.name = "WithSystemPrompt"      -> WithSystemPrompt(m.arg, o)
      [] m.name = "WithCustomTemplate"    -> WithCustomTemplate(m.arg, o)
      [] m.name = "WithServerURL"         -> WithServerURL(m.arg, o)
      [] m.name = "WithHTTPClient"        -> WithHTTPClient(m.arg, o)
      [] m.name = "WithChatMode"          -> WithChatMode(m.arg, o)
      [] m.name = "WithMaxTokens"         -> WithMaxTokens(m.arg, o)
      [] m.name = "WithDoSample"          -> WithDoSample(m.arg, o)
      [] m.name = "WithTemperature"       -> WithTemperature(m.arg, o)
      [] m.name = "WithTopP"              -> WithTopP(m.arg, o)
      [] m.name = "WithRepetitionPenalty" -> WithRepetitionPenalty(m.arg, o)
      [] m.name = "WithStoppingTokens"    -> WithStoppingTokens(m.arg, o)
      [] m.name = "WithStream"            -> WithStream(m.arg, o)
      [] m.name = "WithTokensPerMessage"  -> WithTokensPerMessage(m.arg, o)
      [] m.name = "WithToken"             -> WithToken(m.arg, o)

(***************************************************************************)
(* The constructor: defaults, then every Option in the order given.        *)
(* applied is the part of the caller's Option list that has run.           *)
(***************************************************************************)
Init ==
    /\ opts = DefaultOptions
    /\ pc = "building"
    /\ applied = <<>>

\* an Option ran on the shared options value and left r; m is the Option,
\* for the record of the list; log.Fatal ends the process
Apply(m, r) ==
    /\ pc = "building"
    /\ opts' = r.opts
    /\ pc' = IF r.fatal THEN "fatal" ELSE "building"
    /\ applied' = Append(applied, m)

\* one action per Option: the list has a next Option, and it is this one
ApplyWithModel ==
    /\ Len(applied) < MaxMods
    /\ \E v \in Models : Apply(Opt("WithModel", v), WithModel(v, opts))

ApplyWithFormat ==
    /\ Len(applied) < MaxMods
    /\ \E v \in Formats : Apply(Opt("WithFormat", v), WithFormat(v, opts))

ApplyWithSystemPrompt ==
    /\ Len(applied) < MaxMods
    /\ \E v \in Prompts : Apply(Opt("WithSystemPrompt", v), WithSystemPrompt(v, opts))

ApplyWithCustomTemplate ==
    /\ Len(applied) < MaxMods
    /\ \E v \in Templates : Apply(Opt("WithCustomTemplate", v), WithCustomTemplate(v, opts))

ApplyWithServerURL ==
    /\ Len(applied) < MaxMods
    /\ \E v \in ServerURLs : Apply(Opt("WithServerURL", v), WithServerURL(v, opts))

ApplyWithHTTPClient ==
    /\ Len(applied) < MaxMods
    /\ \E v \in HTTPClients : Apply(Opt("WithHTTPClient", v), WithHTTPClient(v, opts))

ApplyWithChatMode ==
    /\ Len(applied) < MaxMods
    /\ \E v \in BOOLEAN : Apply(Opt("WithChatMode", v), WithChatMode(v, opts))

ApplyWithMaxTokens ==
    /\ Len(applied) < MaxMods
    /\ \E v \in MaxTokensIn : Apply(Opt("WithMaxTokens", v), WithMaxTokens(v, opts))

ApplyWithDoSample ==
    /\ Len(applied) < MaxMods
    /\ \E v \in BOOLEAN : Apply(Opt("WithDoSample", v), WithDoSample(v, opts))

ApplyWithTemperature ==
    /\ Len(applied) < MaxMods
    /\ \E v \in Temperatures : Apply(Opt("WithTemperature", v), WithTemperature(v, opts))

ApplyWithTopP ==
    /\ Len(applied) < MaxMods
    /\ \E v \in TopPs : Apply(Opt("WithTopP", v), WithTopP(v, opts))

ApplyWithRepetitionPenalty ==
    /\ Len(applied) < MaxMods
    /\ \E v \in Penalties : Apply(Opt("WithRepetitionPenalty", v), WithRepetitionPenalty(v, opts))

ApplyWithStoppingTokens ==
    /\ Len(applied) < MaxMods
    /\ \E v \in StopLists : Apply(Opt("WithStoppingTokens", v), WithStoppingTokens(v, opts))

ApplyWithStream ==
    /\ Len(applied) < MaxMods
    /\ \E v \in BOOLEAN : Apply(Opt("WithStream", v), WithStream(v, opts))

ApplyWithTokensPerMessage ==
    /\ Len(applied) < MaxMods
    /\ \E v \in PerMessages : Apply(Opt("WithTokensPerMessage", v), WithTokensPerMessage(v, opts))

ApplyWithToken ==
    /\ Len(applied) < MaxMods
    /\ \E v \in Tokens : Apply(Opt("WithToken", v), WithToken(v, opts))

\* the list is exhausted: the options value is final and goes to the client
Finish ==
    /\ pc = "building"
    /\ pc' = "done"
    /\ UNCHANGED <<opts, applied>>

Next ==
    \/ ApplyWithModel
    \/ ApplyWithFormat
    \/ ApplyWithSystemPrompt
    \/ ApplyWithCustomTemplate
    \/ ApplyWithServerURL
    \/ ApplyWithHTTPClient
    \/ ApplyWithChatMode
    \/ ApplyWithMaxTokens
    \/ ApplyWithDoSample
    \/ ApplyWithTemperature
    \/ ApplyWithTopP
    \/ ApplyWithRepetitionPenalty
    \/ ApplyWithStoppingTokens
    \/ ApplyWithStream
    \/ ApplyWithTokensPerMessage
    \/ ApplyWithToken
    \/ Finish

Spec == Init /\ [][Next]_vars

\* WithServerURL as the only Option of the list, over every raw URL
ApplyAnyServerURL ==
    /\ applied = <<>>
    /\ \E v \in RawURLs : Apply(Opt("WithServerURL", v), WithServerURL(v, opts))

NextURL ==
    \/ ApplyAnyServerURL
    \/ Finish

SpecURL == Init /\ [][NextURL]_vars

(***************************************************************************)
(* Vocabulary of the properties                                            *)
(***************************************************************************)
OptionNames ==
    {"WithModel", "WithFormat", "WithSystemPrompt", "WithCustomTemplate",
     "WithServerURL", "WithHTTPClient", "WithChatMode", "WithMaxTokens",
     "WithDoSample", "WithTemperature", "WithTopP", "WithRepetitionPenalty",
     "WithStoppingTokens", "WithStream", "WithTokensPerMessage", "WithToken"}

\* the one field each Option is for
FieldOf(name) ==
    CASE name = "WithModel"             -> "modelName"
      [] name = "WithFormat"            -> "responseFormat"
      [] name = "WithSystemPrompt"      -> "systemPrompt"
      [] name = "WithCustomTemplate"    -> "customTemplate"
      [] name = "WithServerURL"         -> "serverEndpoint"
      [] name = "WithHTTPClient"        -> "transport"
      [] name = "WithChatMode"          -> "chatMode"
      [] name = "WithMaxTokens"         -> "maxTokens"
      [] name = "WithDoSample"          -> "doSample"
      [] name = "WithTemperature"       -> "temperature"
      [] name = "WithTopP"              -> "topP"
      [] name = "WithRepetitionPenalty" -> "repetitionPenalty"
      [] name = "WithStoppingTokens"    -> "stoppingTokens"
      [] name = "WithStream"            -> "stream"
      [] name = "WithTokensPerMessage"  -> "tokensPerMessage"
      [] name = "WithToken"             -> "authToken"

Fields == {FieldOf(n) : n \in OptionNames}

\* the value of field f in the options value o
Get(o, f) ==
    CASE f = "modelName"         -> o.model
      [] f = "responseFormat"    -> o.format
      [] f = "systemPrompt"      -> o.system
      [] f = "customTemplate"    -> o.customModelTemplate
      [] f = "serverEndpoint"    -> o.maritacaServerURL
      [] f = "transport"         -> o.httpClient
      [] f = "chatMode"          -> o.maritacaOptions.ChatMode
      [] f = "maxTokens"         -> o.maritacaOptions.MaxTokens
      [] f = "doSample"          -> o.maritacaOptions.DoSample
      [] f = "temperature"       -> o.maritacaOptions.Temperature
      [] f = "topP"              -> o.maritacaOptions.TopP
      [] f = "repetitionPenalty" -> o.maritacaOptions.RepetitionPenalty
      [] f = "stoppingTokens"    -> o.maritacaOptions.StoppingTokens
      [] f = "stream"            -> o.maritacaOptions.Stream
      [] f = "tokensPerMessage"  -> o.maritacaOptions.NumTokensPerMessage
      [] f = "authToken"         -> o.maritacaOptions.Token

\* positions of the applied list whose Option is for field f
Touching(f, n) == {i \in 1..n : FieldOf(applied[i].name) = f}

\* the last of the first n applied Options that is for field f (0: none)
LastTouching(f, n) ==
    IF Touching(f, n) = {} THEN 0
    ELSE CHOOSE i \in Touching(f, n) : \A j \in Touching(f, n) : j <= i

\* what an Option hands to its field: its argument, and for WithServerURL
\* the location its argument parses to
Supplied(m) == IF m.name = "WithServerURL" THEN Parse(m.arg).url ELSE m.arg

ValidURL(rawURL) == Parse(rawURL).err = ""

LastApplied == applied[Len(applied)]

\* the options value after the Options ms ran in order on o
RECURSIVE RunAll(_, _)
RunAll(ms, o) ==
    IF ms = <<>> THEN o ELSE RunAll(Tail(ms), Option(Head(ms), o).opts)

\* scheme, host and path of the location u survive String and Parse
RoundTrips(u) ==
    LET r == Parse(String(u)) IN
    /\ r.err = ""
    /\ r.url.Scheme = u.Scheme
    /\ r.url.Host = u.Host
    /\ r.url.Path = u.Path

\* the same, with paths that differ by a leading "./" taken as equivalent
\* (String writes "./" before a first segment that holds a ':')
RoundTripsEquivalent(u) ==
    LET r == Parse(String(u)) IN
    /\ r.err = ""
    /\ r.url.Scheme = u.Scheme
    /\ r.url.Host = u.Host
    /\ r.url.Path = u.Path \/ r.url.Path = <<46, 47>> \o u.Path

(***************************************************************************)
(* Properties                                                              *)
(***************************************************************************)
\* C1: last write wins.  While the process lives, every field some applied
\* Option is for holds what the last applied Option for that field
\* supplied, whatever earlier Options did.
C1_LastWriteWins ==
    pc # "fatal" =>
        \A f \in Fields :
            LET k == LastTouching(f, Len(applied)) IN
            k # 0 => Get(opts, f) = Supplied(applied[k])

\* a finished list of three Options whose first and last are for the same
\* field with different arguments, and whose second is for another field
C1_Witness ==
    /\ pc = "done"
    /\ Len(applied) = 3
    /\ applied[1].name = applied[3].name
    /\ applied[1].arg # applied[3].arg
    /\ applied[2].name # applied[1].name
    /\ Get(opts, FieldOf(applied[3].name)) = applied[3].arg

\* C2: every field no applied Option is for keeps its default: chatMode
\* true, doSample true, temperature 0.7, topP 0.95, repetitionPenalty 1,
\* stream false, tokensPerMessage 4; the generation parameters are always
\* all there, and with no Option applied the value is the default value.
C2_UntouchedKeepDefaults ==
    LET untouched(f) == LastTouching(f, Len(applied)) = 0 IN
    /\ untouched("chatMode") => opts.maritacaOptions.ChatMode = TRUE
    /\ untouched("doSample") => opts.maritacaOptions.DoSample = TRUE
    /\ untouched("temperature") => opts.maritacaOptions.Temperature = 70
    /\ untouched("topP") => opts.maritacaOptions.TopP = 95
    /\ untouched("repetitionPenalty") => opts.maritacaOptions.RepetitionPenalty = 100
    /\ untouched("stream") => opts.maritacaOptions.Stream = FALSE
    /\ untouched("tokensPerMessage") => opts.maritacaOptions.NumTokensPerMessage = 4
    /\ \A f \in Fields : untouched(f) => Get(opts, f) = Get(DefaultOptions, f)
    /\ DOMAIN opts.maritacaOptions =
           {"ChatMode", "MaxTokens", "DoSample", "Temperature", "TopP",
            "RepetitionPenalty", "StoppingTokens", "Stream",
            "NumTokensPerMessage", "Token"}
    /\ applied = <<>> => opts = DefaultOptions

\* a finished list of three Options none of which is for one of the seven
\* fields with a documented default
C2_Witness ==
    /\ pc = "done"
    /\ Len(applied) = 3
    /\ \A i \in 1..3 :
           applied[i].name \in {"WithModel", "WithMaxTokens", "WithToken"}
    /\ opts.model # ""
    /\ opts.maritacaOptions.Token # ""
    /\ opts.maritacaOptions.Temperature = 70

\* C4: WithStoppingTokens replaces the stop tokens.  Right after it ran,
\* the stored sequence is its argument, element for element, whatever
\* sequence was stored before.
C4_StoppingTokensReplaced ==
    (applied # <<>> /\ LastApplied.name = "WithStoppingTokens") =>
        opts.maritacaOptions.StoppingTokens = LastApplied.arg

\* WithStoppingTokens with the empty sequence, then with a non-empty one
C4_Witness ==
    /\ Len(applied) = 2
    /\ applied[1] = Opt("WithStoppingTokens", <<>>)
    /\ applied[2].name = "WithStoppingTokens"
    /\ applied[2].arg # <<>>
    /\ opts.maritacaOptions.StoppingTokens = applied[2].arg

\* C6: running an Option changes no field but the one it is for, and the
\* end of the list changes no field at all.
C6_OneFieldPerOption ==
    [][/\ applied' # applied =>
              \A f \in Fields \ {FieldOf(applied'[Len(applied')].name)} :
                  Get(opts', f) = Get(opts, f)
       /\ applied' = applied => opts' = opts]_vars

\* one Option ran: its field left its default, every other field did not
C6_Witness ==
    /\ Len(applied) = 1
    /\ Get(opts, FieldOf(applied[1].name)) # Get(DefaultOptions, FieldOf(applied[1].name))
    /\ \A f \in Fields \ {FieldOf(applied[1].name)} :
           Get(opts, f) = Get(DefaultOptions, f)

\* C7: no Option but WithServerURL validates or fails.  A list without
\* WithServerURL never ends in log.Fatal, and right after such an Option
\* ran its field holds the argument as given, in range or not.
C7_NoValidation ==
    /\ (\A i \in 1..Len(applied) : applied[i].name # "WithServerURL") => pc # "fatal"
    /\ (applied # <<>> /\ LastApplied.name # "WithServerURL") =>
           /\ pc # "fatal"
           /\ Get(opts, FieldOf(LastApplied.name)) = LastApplied.arg

\* maxTokens 0, temperature -1 and topP 1.5 were given, are stored, and
\* the list finished
C7_Witness ==
    /\ pc = "done"
    /\ applied = <<Opt("WithMaxTokens", 0), Opt("WithTemperature", -100),
                   Opt("WithTopP", 150)>>
    /\ opts.maritacaOptions.MaxTokens = 0
    /\ opts.maritacaOptions.Temperature = -100
    /\ opts.maritacaOptions.TopP = 150

\* C8 as stated: at the abort every field an earlier Option was for still
\* holds what the last earlier Option for it supplied.
C8_AbortCarriesEveryEarlierMutation ==
    pc = "fatal" =>
        \A f \in Fields :
            LET k == LastTouching(f, Len(applied) - 1) IN
            k # 0 => Get(opts, f) = Supplied(applied[k])

\* C8, amended: at the abort the failing WithServerURL is the last Option
\* that ran and the only one whose URL does not parse; every field other
\* than the server URL that an earlier Option was for still holds what the
\* last earlier Option for it supplied; the server URL is nil, whatever an
\* earlier WithServerURL stored.
C8_AbortKeepsOtherFields ==
    pc = "fatal" =>
        /\ applied # <<>>
        /\ LastApplied.name = "WithServerURL"
        /\ ~ValidURL(LastApplied.arg)
        /\ \A i \in 1..(Len(applied) - 1) :
               applied[i].name = "WithServerURL" => ValidURL(applied[i].arg)
        /\ \A f \in Fields \ {"serverEndpoint"} :
               LET k == LastTouching(f, Len(applied) - 1) IN
               /\ k # 0 => Get(opts, f) = Supplied(applied[k])
               /\ k = 0 => Get(opts, f) = Get(DefaultOptions, f)
        /\ opts.maritacaServerURL = NilURL

\* the third Option aborts after a model name and a good URL were set
C8_Witness ==
    /\ pc = "fatal"
    /\ Len(applied) = 3
    /\ applied[1].name = "WithModel"
    /\ applied[2] = Opt("WithServerURL", LocalhostURL)
    /\ opts.model = applied[1].arg
    /\ opts.maritacaServerURL = NilURL

\* C9: Options for different fields commute.  When the last two Options
\* that ran are for different fields and none failed, running them in the
\* other order on the value before them gives the same options value.
C9_DifferentFieldsCommute ==
    LET n == Len(applied) IN
    (/\ n >= 2
     /\ pc # "fatal"
     /\ FieldOf(applied[n - 1].name) # FieldOf(applied[n].name)) =>
        LET base  == RunAll(SubSeq(applied, 1, n - 2), DefaultOptions)
            first == Option(applied[n], base)
            both  == Option(applied[n - 1], first.opts)
        IN /\ ~first.fatal
           /\ ~both.fatal
           /\ both.opts = opts

\* three Options ran, the last two for different fields, both visible
C9_Witness ==
    /\ pc = "done"
    /\ Len(applied) = 3
    /\ applied[2].name = "WithStream"
    /\ applied[3].name = "WithTokensPerMessage"
    /\ opts.maritacaOptions.Stream = applied[2].arg
    /\ opts.maritacaOptions.NumTokensPerMessage = applied[3].arg
    /\ applied[3].arg # 4

\* C3: a raw URL that url.Parse rejects ends the process in log.Fatal with
\* no server URL stored; "not a url\n", with its control character, is one.
C3_InvalidURLIsFatal ==
    (applied # <<>> /\ LastApplied.name = "WithServerURL") =>
        /\ ~ValidURL(LastApplied.arg) =>
               /\ pc = "fatal"
               /\ opts.maritacaServerURL = NilURL
        /\ LastApplied.arg = NotAURL => pc = "fatal"

\* WithServerURL("not a url\n") ran and the process is in log.Fatal
C3_Witness ==
    /\ applied = <<Opt("WithServerURL", NotAURL)>>
    /\ pc = "fatal"

\* C5 as stated: every raw URL that parses is stored, without log.Fatal,
\* as a location whose String parses back to an equivalent URL: the same
\* scheme, host and path; "http://localhost:8080" gives scheme "http",
\* host "localhost:8080".
C5_EveryValidURLRoundTrips ==
    (applied # <<>> /\ LastApplied.name = "WithServerURL"
        /\ ValidURL(LastApplied.arg)) =>
        /\ pc # "fatal"
        /\ ~opts.maritacaServerURL.nil
        /\ RoundTripsEquivalent(opts.maritacaServerURL)
        /\ LastApplied.arg = LocalhostURL =>
               /\ opts.maritacaServerURL.Scheme = HTTP
               /\ opts.maritacaServerURL.Host = LocalhostHost

\* the raw path of u is written the way String writes it: it holds no byte
\* that String has to escape
PathWellEncoded(u) == u.RawPath = <<>> \/ validEncoded(u.RawPath, "path")

\* C5, amended: every raw URL that parses is stored, without log.Fatal, as
\* the location url.Parse gives for it; when the path of the raw URL holds
\* no byte that has to be escaped, the String of the location parses back
\* to the same scheme, host and path; "http://localhost:8080" gives scheme
\* "http", host "localhost:8080".
C5_WellEncodedURLRoundTrips ==
    (applied # <<>> /\ LastApplied.name = "WithServerURL"
        /\ ValidURL(LastApplied.arg)) =>
        /\ pc # "fatal"
        /\ ~opts.maritacaServerURL.nil
        /\ opts.maritacaServerURL = Parse(LastApplied.arg).url
        /\ PathWellEncoded(opts.maritacaServerURL) =>
               RoundTrips(opts.maritacaServerURL)
        /\ LastApplied.arg = LocalhostURL =>
               /\ opts.maritacaServerURL.Scheme = HTTP
               /\ opts.maritacaServerURL.Host = LocalhostHost

\* "http://localhost:8080" is stored and the list finished
C5_Witness ==
    /\ pc = "done"
    /\ applied = <<Opt("WithServerURL", LocalhostURL)>>
    /\ opts.maritacaServerURL.Scheme = HTTP
    /\ opts.maritacaServerURL.Host = LocalhostHost
    /\ opts.maritacaServerURL.Path = <<>>
    /\ String(opts.maritacaServerURL) = LocalhostURL

====
